---- MODULE Spec2Model ----
(***************************************************************************)
(* Model of the bouncing-ball simulator: the Canvas component (body list,  *)
(* rotation, animation-frame loop, updatePhysics) and the ChatPanel        *)
(* component (handleSend).                                                 *)
(*                                                                         *)
(* Numbers.  The program computes in IEEE doubles.  The model computes in  *)
(* fixed point: a real r is held as the integer nearest to r * Q, sums and *)
(* differences are exact, products and quotients round to nearest with     *)
(* ties away from zero (so that -(a*b) = (-a)*b, as for doubles).  Angles  *)
(* are whole multiples of 360/Turn degrees.                                *)
(***************************************************************************)
EXTENDS Integers, Sequences, FiniteSets, TLC

(***************************************************************************)
(* Fixed point                                                             *)
(***************************************************************************)
\* one unit of the program is Q units of the model
Q == 100

Abs(a) == IF a < 0 THEN -a ELSE a

Min(a, b) == IF a < b THEN a ELSE b

\* a / b rounded to nearest, ties away from zero (b > 0)
RDiv(a, b) == IF a >= 0 THEN (2 * a + b) \div (2 * b) ELSE -((2 * (-a) + b) \div (2 * b))

\* fixed-point product of two fixed-point numbers
MulF(a, b) == RDiv(a * b, Q)

\* body(v): v is computed once, whatever body does with it
Bind(v, body(_)) == CHOOSE r \in { body(x) : x \in { v } } : TRUE

\* the sequence f written out element by element, each computed once
AsSeq(f) == f \o << >>

RECURSIVE SqrtIter(_, _, _)
SqrtIter(n, lo, hi) ==
  IF lo >= hi THEN lo
  ELSE Bind((lo + hi + 1) \div 2,
            LAMBDA m : IF m * m <= n THEN SqrtIter(n, m, hi) ELSE SqrtIter(n, lo, m - 1))

\* the largest square root a 32-bit square has
SqrtMax == 46340

\* square root rounded to nearest
Sqrt(n) ==
  Bind(n, LAMBDA v :
    Bind(SqrtIter(v, 0, SqrtMax), LAMBDA r : IF v - r * r > r THEN r + 1 ELSE r))

(***************************************************************************)
(* Vector math (utils/math)                                                *)
(***************************************************************************)
Vec(a, b) == [x |-> a, y |-> b]

Zero == Vec(0, 0)

add(a, b) == Vec(a.x + b.x, a.y + b.y)

sub(a, b) == Vec(a.x - b.x, a.y - b.y)

mult(v, k) == Vec(MulF(v.x, k), MulF(v.y, k))

dot(a, b) == RDiv(a.x * b.x + a.y * b.y, Q)

mag(v) == Sqrt(v.x * v.x + v.y * v.y)

\* the zero vector has no direction: the zero vector is returned for it
normalize(v) ==
  Bind(mag(v), LAMBDA m :
    IF m = 0 THEN Zero ELSE Vec(RDiv(v.x * Q, m), RDiv(v.y * Q, m)))

(***************************************************************************)
(* Shape geometry (utils/math)                                             *)
(***************************************************************************)
\* angle units in a full turn: one unit is 3 degrees
Turn == 120

\* scale of the cosine table
CScale == 10000

\* cos of 0, 3, ..., 90 degrees, times CScale
CosQuarter ==
  << 10000, 9986, 9945, 9877, 9781, 9659, 9511, 9336, 9135, 8910, 8660,
     8387, 8090, 7771, 7431, 7071, 6691, 6293, 5878, 5446, 5000, 4540,
     4067, 3584, 3090, 2588, 2079, 1564, 1045, 523, 0 >>

Cos(a) ==
  LET t == a % Turn
      h == Turn \div 2
      q == Turn \div 4
  IN IF t <= q THEN CosQuarter[t + 1]
     ELSE IF t <= h THEN -CosQuarter[h - t + 1]
     ELSE IF t <= h + q THEN -CosQuarter[t - h + 1]
     ELSE CosQuarter[Turn - t + 1]

Sin(a) == Cos(a + 3 * (Turn \div 4))

\* the point at distance r from c in direction a
Polar(c, r, a) == Vec(c.x + RDiv(r * Cos(a), CScale), c.y + RDiv(r * Sin(a), CScale))

generatePolygon(n, radius, c, rotation) ==
  AsSeq([i \in 1..n |-> Polar(c, radius, rotation + (i - 1) * (Turn \div n))])

generateStar(n, outer, inner, c, rotation) ==
  AsSeq([i \in 1..(2 * n) |->
           Polar(c, IF i % 2 = 1 THEN outer ELSE inner,
                 rotation + (i - 1) * (Turn \div (2 * n)))])

(***************************************************************************)
(* Canvas: updatePhysics                                                   *)
(*                                                                         *)
(* A body is [id, pos, vel, radius]; its id `${config.id}-${i}` is held as *)
(* <<config.id, i>>.  A configuration is [id, ballCount, initialSpeed,     *)
(* ballSize, gravity, friction, restitution, rotationSpeed, shapeType,     *)
(* vertexCount]; rotationSpeed is in angle units, vertexCount is a whole   *)
(* number, the rest is fixed point.  Global settings are [gravityMultiplier,*)
(* timeScale, rotationMultiplier, bouncinessMultiplier].                   *)
(***************************************************************************)
\* Math.min(width, height) * 0.45
ShapeNum == 45

ShapeDen == 100

shapeRadiusOf(width, height) == RDiv(Min(width, height) * ShapeNum, ShapeDen)

\* state.rotation += config.rotationSpeed * rotationMultiplier * timeScale
NextRotation(rotation, cfg, gs) ==
  rotation + MulF(MulF(cfg.rotationSpeed, gs.rotationMultiplier), gs.timeScale)

\* a falsy vertexCount (0) is replaced by the default
OrDefault(n, d) == IF n = 0 THEN d ELSE n

StarInnerNum == 4

StarInnerDen == 10

DefaultStarPoints == 5

DefaultPolygonSides == 4

localVerticesOf(cfg, shapeRadius, rotation) ==
  IF cfg.shapeType = "star"
  THEN generateStar(OrDefault(cfg.vertexCount, DefaultStarPoints), shapeRadius,
                    RDiv(shapeRadius * StarInnerNum, StarInnerDen), Zero, rotation)
  ELSE generatePolygon(OrDefault(cfg.vertexCount, DefaultPolygonSides), shapeRadius,
                       Zero, rotation)

\* dragCoefficient = 0.003
DragNum == 3

DragDen == 1000

\* velocityMag > 0.001
DragThresholdDen == 1000

\* the velocity after gravity and linear friction (lines 75-76)
Forced(vel, cfg, gs) ==
  mult(Vec(vel.x, vel.y + MulF(MulF(cfg.gravity, gs.gravityMultiplier), gs.timeScale)),
       Q - MulF(cfg.friction, gs.timeScale))

\* the velocity after quadratic drag (lines 79-86)
Dragged(vel, gs) ==
  Bind(mag(vel), LAMBDA velocityMag :
    IF velocityMag * DragThresholdDen > Q
    THEN Bind(mult(vel, -RDiv(DragNum * velocityMag, DragDen)), LAMBDA dragAcceleration :
           add(vel, mult(dragAcceleration, gs.timeScale)))
    ELSE vel)

\* gravity, linear friction, quadratic drag, then the position (lines 74-88)
Integrate(ball, cfg, gs) ==
  Bind(Forced(ball.vel, cfg, gs), LAMBDA v2 :
    Bind(Dragged(v2, gs), LAMBDA v3 :
      [ball EXCEPT !.vel = v3, !.pos = add(ball.pos, mult(v3, gs.timeScale))]))

\* the inward unit normal of the edge from p1 to p2 (lines 96-103)
EdgeNormal(p1, p2) ==
  Bind(normalize(Vec(-(p2.y - p1.y), p2.x - p1.x)), LAMBDA n :
    IF dot(n, mult(p1, -Q)) < 0 THEN Vec(-n.x, -n.y) ELSE n)

\* mult(edgeNormal, 0.1)
NudgeDen == 10

\* the velocity reflected about edgeNormal, scaled, and nudged (lines 116-119)
Reflected(vel, edgeNormal, velDotNormal, restitution) ==
  Bind(mult(edgeNormal, 2 * velDotNormal), LAMBDA reflect :
    Bind(mult(sub(vel, mult(reflect, Q)), restitution), LAMBDA scaled :
      add(scaled, mult(edgeNormal, RDiv(Q, NudgeDen)))))

\* a body found within its radius of the edge line (lines 109-120)
PushedIn(ball, edgeNormal, dist, restitution) ==
  Bind(dot(ball.vel, edgeNormal), LAMBDA velDotNormal :
    [ball EXCEPT
       !.pos = add(ball.pos, mult(edgeNormal, ball.radius - dist)),
       !.vel = IF velDotNormal < 0
               THEN Reflected(ball.vel, edgeNormal, velDotNormal, restitution)
               ELSE ball.vel])

\* one edge of the wall loop against one body (lines 94-121)
CollideEdge(ball, p1, p2, restitution) ==
  Bind(EdgeNormal(p1, p2), LAMBDA edgeNormal :
    Bind(dot(sub(ball.pos, p1), edgeNormal), LAMBDA dist :
      IF dist < ball.radius THEN PushedIn(ball, edgeNormal, dist, restitution) ELSE ball))

RECURSIVE CollideEdges(_, _, _, _)
\* edges i, i+1, ..., in index order, each on the body the previous one left
CollideEdges(ball, verts, i, restitution) ==
  IF i > Len(verts) THEN ball
  ELSE Bind(CollideEdge(ball, verts[i], verts[(i % Len(verts)) + 1], restitution),
            LAMBDA b : CollideEdges(b, verts, i + 1, restitution))

\* step 3 of updatePhysics for one body (lines 73-123)
UpdateBall(ball, verts, cfg, gs) ==
  Bind(Integrate(ball, cfg, gs), LAMBDA b :
    Bind(MulF(cfg.restitution, gs.bouncinessMultiplier), LAMBDA restitution :
      CollideEdges(b, verts, 1, restitution)))

(***************************************************************************)
(* Broad phase: the spatial grid (lines 126-141)                           *)
(***************************************************************************)
\* cellSize = config.ballSize * 2.5
CellNum == 25

CellDen == 10

cellSizeOf(cfg) == RDiv(cfg.ballSize * CellNum, CellDen)

\* worldBounds = shapeRadius * 1.1
WorldNum == 11

WorldDen == 10

worldBoundsOf(shapeRadius) == RDiv(shapeRadius * WorldNum, WorldDen)

\* Math.floor((p + worldBounds) / cellSize); \div is the floor for cellSize > 0
CellCoord(p, worldBounds, cellSize) == (p + worldBounds) \div cellSize

\* the key `${cellX},${cellY}` of a body's cell, held as the pair it spells
CellKey(ball, worldBounds, cellSize) ==
  << CellCoord(ball.pos.x, worldBounds, cellSize),
     CellCoord(ball.pos.y, worldBounds, cellSize) >>

\* the index of the entry of grid with this key, 0 when there is none
GridIndex(grid, key) ==
  IF \E k \in 1..Len(grid) : grid[k].key = key
  THEN CHOOSE k \in 1..Len(grid) : grid[k].key = key
  ELSE 0

\* grid.get(key).push(i), after grid.set(key, []) for a new key
Inserted(grid, key, i) ==
  Bind(GridIndex(grid, key), LAMBDA k :
    IF k = 0
    THEN Append(grid, [key |-> key, balls |-> << i >>])
    ELSE [grid EXCEPT ![k].balls = Append(@, i)])

RECURSIVE Populate(_, _, _, _, _)
\* the Map after inserting bodies i.. in order: entries in insertion order,
\* each the key and the indices of its bodies in insertion order
Populate(balls, i, grid, worldBounds, cellSize) ==
  IF i > Len(balls) THEN grid
  ELSE Bind(CellKey(balls[i], worldBounds, cellSize), LAMBDA key :
         Bind(Inserted(grid, key, i), LAMBDA g :
           Populate(balls, i + 1, g, worldBounds, cellSize)))

BuildGrid(balls, worldBounds, cellSize) == Populate(balls, 1, << >>, worldBounds, cellSize)

(***************************************************************************)
(* Narrow phase (lines 143-208)                                            *)
(***************************************************************************)
\* a scan that looks only at the cell itself and the cells after it
OffsetsForward == << 0, 1 >>

\* dx and dy of the neighbourhood scan, in loop order
Offsets == << -1, 0, 1 >>

\* the bodies of the neighbour cell, << >> when the Map has no such key
NeighborBalls(grid, key) ==
  Bind(GridIndex(grid, key), LAMBDA k : IF k = 0 THEN << >> ELSE grid[k].balls)

\* << a, b >> for ballA in cellBalls, ballB in neighborBalls, in loop order
PairsOf(cellBalls, neighborBalls) ==
  Bind(neighborBalls, LAMBDA nb :
    AsSeq([n \in 1..(Len(cellBalls) * Len(nb)) |->
             << cellBalls[((n - 1) \div Len(nb)) + 1], nb[((n - 1) % Len(nb)) + 1] >>]))

RECURSIVE Flatten(_, _)
Flatten(seqs, i) ==
  IF i > Len(seqs) THEN << >>
  ELSE Bind(Flatten(seqs, i + 1), LAMBDA rest : seqs[i] \o rest)

\* the candidates the scan of cell c reaches, per offset in loop order
ScanOf(grid, c) ==
  AsSeq([n \in 1..(Len(Offsets) * Len(Offsets)) |->
           PairsOf(c.balls,
                   NeighborBalls(grid,
                     << c.key[1] + Offsets[((n - 1) \div Len(Offsets)) + 1],
                        c.key[2] + Offsets[((n - 1) % Len(Offsets)) + 1] >>))])

\* every << a, b >> the four nested loops reach, in the order they reach it
Candidates(grid) ==
  Bind(AsSeq([k \in 1..Len(grid) |-> Bind(ScanOf(grid, grid[k]), LAMBDA sc : Flatten(sc, 1))]),
       LAMBDA perCell : Flatten(perCell, 1))

\* ballA.id < ballB.id: the ids of one list share the prefix `${config.id}-`,
\* and the numerals of the indices 0..9 are ordered as the indices are
IdLess(a, b) == a.id[2] < b.id[2]

\* a key that holds the pair in the order the loops reached it
PairKeyAsReached(a, b) == << a.id, b.id >>

\* the canonical key `${smaller}|${larger}` of the pair, held as the pair of ids
PairKey(a, b) == IF IdLess(a, b) THEN << a.id, b.id >> ELSE << b.id, a.id >>

\* an exchange that loses a fifth of the normal components, as a wall bounce
\* of restitution 0.8 would
SwappedLossy(ballA, ballB, collisionNormal) ==
  Bind(mult(collisionNormal, dot(ballA.vel, collisionNormal)), LAMBDA v1n_vec :
    Bind(mult(collisionNormal, dot(ballB.vel, collisionNormal)), LAMBDA v2n_vec :
      [a |-> add(sub(ballA.vel, v1n_vec), mult(v2n_vec, (8 * Q) \div 10)),
       b |-> add(sub(ballB.vel, v2n_vec), mult(v1n_vec, (8 * Q) \div 10))]))

\* the normal components swapped, the tangential ones kept (lines 189-200)
Swapped(ballA, ballB, collisionNormal) ==
  Bind(mult(collisionNormal, dot(ballA.vel, collisionNormal)), LAMBDA v1n_vec :
    Bind(mult(collisionNormal, dot(ballB.vel, collisionNormal)), LAMBDA v2n_vec :
      [a |-> add(sub(ballA.vel, v1n_vec), v2n_vec),
       b |-> add(sub(ballB.vel, v2n_vec), v1n_vec)]))

\* an overlapping pair: position correction, then the velocity update
\* (lines 175-201)
Collided(ballA, ballB, distVec, distance) ==
  Bind(ballA.radius + ballB.radius - distance, LAMBDA overlap :
    Bind(IF distance = 0 THEN Vec(Q, 0) ELSE normalize(distVec), LAMBDA correctionNormal :
      Bind(normalize(distVec), LAMBDA collisionNormal :
        Bind(dot(sub(ballB.vel, ballA.vel), collisionNormal), LAMBDA speedAlongNormal :
          Bind(IF speedAlongNormal < 0
               THEN Swapped(ballA, ballB, collisionNormal)
               ELSE [a |-> ballA.vel, b |-> ballB.vel], LAMBDA vel :
            [hit |-> TRUE,
             swapped |-> speedAlongNormal < 0,
             a |-> [ballA EXCEPT
                      !.pos = add(ballA.pos, mult(correctionNormal, RDiv(-overlap, 2))),
                      !.vel = vel.a],
             b |-> [ballB EXCEPT
                      !.pos = add(ballB.pos, mult(correctionNormal, RDiv(overlap, 2))),
                      !.vel = vel.b]])))))

\* the collision logic for one pair (lines 167-202)
ResolvePair(ballA, ballB) ==
  Bind(sub(ballB.pos, ballA.pos), LAMBDA distVec :
    Bind(mag(distVec), LAMBDA distance :
      IF distance < ballA.radius + ballB.radius
      THEN Collided(ballA, ballB, distVec, distance)
      ELSE [hit |-> FALSE, swapped |-> FALSE, a |-> ballA, b |-> ballB]))

\* checkedPairs.has(pairKey)
AlreadyChecked(checkedPairs, pairKey) == pairKey \in checkedPairs

\* what the narrow phase has done so far: the bodies, the checkedPairs set,
\* and the log of the pairs it examined
Examined(st, a, b, pairKey) ==
  Bind(ResolvePair(st.balls[a], st.balls[b]), LAMBDA r :
    [balls |-> [st.balls EXCEPT ![a] = r.a, ![b] = r.b],
     checkedPairs |-> st.checkedPairs \cup { pairKey },
     log |-> Append(st.log, [a |-> a, b |-> b, hit |-> r.hit, swapped |-> r.swapped,
                             beforeA |-> st.balls[a], beforeB |-> st.balls[b],
                             afterA |-> r.a, afterB |-> r.b])])

\* the body of the innermost loop for the candidate << a, b >> (lines 158-203)
Encounter(st, a, b) ==
  IF st.balls[a].id = st.balls[b].id THEN st
  ELSE Bind(PairKey(st.balls[a], st.balls[b]), LAMBDA pairKey :
         IF AlreadyChecked(st.checkedPairs, pairKey) THEN st
         ELSE Examined(st, a, b, pairKey))

RECURSIVE Narrow(_, _, _)
\* the candidates n.., in order
Narrow(cands, n, st) ==
  IF n > Len(cands) THEN st
  ELSE Bind(Encounter(st, cands[n][1], cands[n][2]), LAMBDA st1 : Narrow(cands, n + 1, st1))

(***************************************************************************)
(* The escape check (lines 212-218) and the whole step                     *)
(***************************************************************************)
\* shapeRadius + 50
EscapeMargin == 50

\* a final check that moves an escaped body to the centre but keeps its velocity
FinalCheckKeepsVelocity(ball, shapeRadius) ==
  IF mag(ball.pos) > shapeRadius + EscapeMargin * Q
  THEN [ball EXCEPT !.pos = Zero]
  ELSE ball

\* lines 212-218
FinalCheck(ball, shapeRadius) ==
  IF mag(ball.pos) > shapeRadius + EscapeMargin * Q
  THEN [ball EXCEPT !.pos = Zero, !.vel = Zero]
  ELSE ball

\* steps 4 and 5 of updatePhysics on the bodies step 3 left (lines 126-218)
Collisions(moved, rot1, cfg, shapeRadius) ==
  Bind(cellSizeOf(cfg), LAMBDA cellSize :
    Bind(IF Len(moved) > 1
         THEN BuildGrid(moved, worldBoundsOf(shapeRadius), cellSize)
         ELSE << >>, LAMBDA grid :
      Bind(Candidates(grid), LAMBDA cands :
        Bind(Narrow(cands, 1, [balls |-> moved, checkedPairs |-> {}, log |-> << >>]),
             LAMBDA narrow :
          [balls |-> AsSeq([i \in 1..Len(moved) |-> FinalCheck(narrow.balls[i], shapeRadius)]),
           rotation |-> rot1, width |-> 0, height |-> 0, shapeRadius |-> shapeRadius, cellSize |-> cellSize,
           moved |-> moved, grid |-> grid, cands |-> cands, log |-> narrow.log,
           preFinal |-> narrow.balls]))))

\* updatePhysics(width, height) on the bodies and the rotation of stateRef,
\* reading cfg and gs; the result carries what the step went through
UpdatePhysics(balls, rotation, cfg, gs, width, height) ==
  Bind(shapeRadiusOf(width, height), LAMBDA shapeRadius :
    Bind(NextRotation(rotation, cfg, gs), LAMBDA rot1 :
      Bind(localVerticesOf(cfg, shapeRadius, rot1), LAMBDA localVertices :
        Bind(AsSeq([i \in 1..Len(balls) |-> UpdateBall(balls[i], localVertices, cfg, gs)]),
             LAMBDA moved :
          [Collisions(moved, rot1, cfg, shapeRadius) EXCEPT !.width = width,
                                                            !.height = height]))))

(***************************************************************************)
(* State                                                                   *)
(***************************************************************************)
VARIABLES
  config,          \* Canvas: the config prop of the latest render
  globalSettings,  \* Canvas: the globalSettings prop of the latest render
  balls,           \* Canvas: stateRef.current.balls
  rotation,        \* Canvas: stateRef.current.rotation
  requestRef,      \* Canvas: requestRef.current, 0 for null
  pending,         \* the browser's list of requested frame callbacks, each
                   \* [id, cfg, gs]: tick with the props its render closed over
  nextId,          \* the id the next requestAnimationFrame returns
  phase,           \* "mounted", "detached" (canvasRef.current is null), "unmounted"
  builds,          \* how many times the initialisation effect has run
  frames,          \* how many frames the browser has run
  frameSteps,      \* how many times updatePhysics ran in the latest frame
  renders,         \* how many times the props have changed
  last,            \* what the latest updatePhysics call read and went through
  pairIn,          \* pair resolver: the two bodies handed to ResolvePair
  pairOut,         \* pair resolver: its result
  messages,        \* ChatPanel: messages
  input,           \* ChatPanel: input
  isLoading,       \* ChatPanel: isLoading
  isOpen,          \* ChatPanel: isOpen
  apiKey,          \* ChatPanel: whether process.env.API_KEY is set
  request,         \* ChatPanel: the queries of the generateContent calls in flight
  sends            \* ChatPanel: how many sends were accepted

canvasVars ==
  << config, globalSettings, balls, rotation, requestRef, pending, nextId, phase,
     builds, frames, frameSteps, renders, last >>

pairVars == << pairIn, pairOut >>

chatVars == << messages, input, isLoading, isOpen, apiKey, request, sends >>

vars == << canvasVars, pairVars, chatVars >>

\* a dependency list that leaves ballSize out
SeedDepsWithoutSize(cfg) == << cfg.id, cfg.ballCount, cfg.initialSpeed >>

(***************************************************************************)
(* Canvas: the component                                                   *)
(***************************************************************************)
\* the dependency list of the initialisation effect (line 52)
SeedDeps(cfg) == << cfg.id, cfg.ballCount, cfg.initialSpeed, cfg.ballSize >>

\* Math.random() * 30: the distance of a new body from the centre
SpawnDist == 30

\* what a new body is drawn from: a position within SpawnDist of the centre,
\* and a velocity of initialSpeed * (0.5 + Math.random()) in some direction
Spawns(cfg) ==
  { sp \in { [pos |-> Zero, vel |-> Vec(cfg.initialSpeed, 0)],
             [pos |-> Vec(3 * Q, 0), vel |-> Vec(0, -RDiv(cfg.initialSpeed, 2))] } :
    mag(sp.pos) < SpawnDist * Q }

\* Math.floor(config.ballCount * 1); the loop runs for i = 0 .. count - 1
CountOf(cfg) == cfg.ballCount \div Q

\* the draws of one list: any draw for the first body, and for each later
\* body a draw other than the one before it
Draws(cfg) ==
  { sp \in [1..CountOf(cfg) -> Spawns(cfg)] :
      \A i \in 2..CountOf(cfg) : sp[i] # sp[i - 1] }

\* the body lists the initialisation effect can build (lines 29-46)
NewBalls(cfg) ==
  { AsSeq([i \in 1..CountOf(cfg) |->
             [id |-> << cfg.id, i - 1 >>, pos |-> sp[i].pos, vel |-> sp[i].vel,
              radius |-> cfg.ballSize]]) :
    sp \in Draws(cfg) }

\* what updatePhysics leaves in `last`
StepRecord(n, cfg, gs, res) ==
  [n |-> n, cfg |-> cfg, gs |-> gs, prop |-> config, propGs |-> globalSettings,
   width |-> res.width, height |-> res.height, shapeRadius |-> res.shapeRadius, cellSize |-> res.cellSize, moved |-> res.moved,
   grid |-> res.grid, cands |-> res.cands, log |-> res.log, preFinal |-> res.preFinal,
   balls |-> res.balls]

NoStep ==
  [n |-> 0, cfg |-> << >>, gs |-> << >>, prop |-> << >>, propGs |-> << >>,
   width |-> 0, height |-> 0, shapeRadius |-> 0, cellSize |-> 0, moved |-> << >>, grid |-> << >>, cands |-> << >>,
   log |-> << >>, preFinal |-> << >>, balls |-> << >>]

\* cancelAnimationFrame(id)
CancelFrame(list, id) == SelectSeq(list, LAMBDA cb : cb.id # id)

\* a cleanup that cancels nothing
CleanupNothing(list, ref) == list

\* the cleanup of the animation effect (lines 287-289)
Cleanup(list, ref) == IF ref # 0 THEN CancelFrame(list, ref) ELSE list

\* requestAnimationFrame(tick), tick being the one of the render that read
\* cfg and gs
Request(list, id, cfg, gs) == Append(list, [id |-> id, cfg |-> cfg, gs |-> gs])

\* tick (lines 268-283) run as the callback cb, on the state st threaded
\* through the frame; a null canvasRef.current returns at once, and the 2d
\* context of a canvas that never had another context is never null
Tick(cb, st, w, h) ==
  IF phase # "mounted" THEN st
  ELSE Bind(UpdatePhysics(st.balls, st.rotation, cb.cfg, cb.gs, w, h), LAMBDA res :
         [balls |-> res.balls, rotation |-> res.rotation,
          requestRef |-> st.nextId, nextId |-> st.nextId + 1,
          requested |-> Request(st.requested, st.nextId, cb.cfg, cb.gs),
          steps |-> st.steps + 1,
          last |-> StepRecord(st.last.n + 1, cb.cfg, cb.gs, res)])

RECURSIVE RunTicks(_, _, _, _, _)
\* the callbacks of one frame, in the order they were requested
RunTicks(cbs, i, st, w, h) ==
  IF i > Len(cbs) THEN st
  ELSE Bind(Tick(cbs[i], st, w, h), LAMBDA st1 : RunTicks(cbs, i + 1, st1, w, h))

(***************************************************************************)
(* Bounds and input sets of the component model                            *)
(***************************************************************************)
MaxFrames == 2

MaxRenders == 2

\* clientWidth and clientHeight of the canvas, in fixed point
ClientSizes == { << 100 * Q, 100 * Q >> }

BaseConfig ==
  [id |-> 1, ballCount |-> 2 * Q, initialSpeed |-> 2 * Q, ballSize |-> 2 * Q,
   gravity |-> 0, friction |-> 0, restitution |-> Q, rotationSpeed |-> 5,
   shapeType |-> "polygon", vertexCount |-> 0]

BaseSettings ==
  [gravityMultiplier |-> Q, timeScale |-> Q, rotationMultiplier |-> Q,
   bouncinessMultiplier |-> Q]

\* the configurations a render can bring: one field of cfg changed
ConfigChanges(cfg) ==
  ( { [cfg EXCEPT !.id = v] : v \in { 1, 2 } }
    \cup { [cfg EXCEPT !.ballCount = v] : v \in { Q + Q \div 2, 2 * Q } }
    \cup { [cfg EXCEPT !.initialSpeed = v] : v \in { 0, 2 * Q } }
    \cup { [cfg EXCEPT !.ballSize = v] : v \in { 2 * Q, 3 * Q } }
    \cup { [cfg EXCEPT !.gravity = v] : v \in { 0, Q \div 2 } } ) \ { cfg }

\* the settings a render can bring
SettingsChanges(gs) == { [gs EXCEPT !.timeScale = v] : v \in { Q, Q \div 2 } } \ { gs }

(***************************************************************************)
(* Actions of the component                                                *)
(***************************************************************************)
\* a render with new props, and the effects it runs: the initialisation
\* effect when one of its dependencies changed (lines 28-52), the animation
\* effect, cleanup first, when globalSettings changed (lines 285-291)
Render(newCfg, newGs) ==
  /\ phase = "mounted"
  /\ renders < MaxRenders
  /\ renders' = renders + 1
  /\ config' = newCfg
  /\ globalSettings' = newGs
  /\ IF SeedDeps(newCfg) # SeedDeps(config)
     THEN /\ balls' \in NewBalls(newCfg)
          /\ rotation' = 0
          /\ builds' = builds + 1
     ELSE UNCHANGED << balls, rotation, builds >>
  /\ IF newGs # globalSettings
     THEN /\ pending' = Request(Cleanup(pending, requestRef), nextId, newCfg, newGs)
          /\ requestRef' = nextId
          /\ nextId' = nextId + 1
     ELSE UNCHANGED << pending, requestRef, nextId >>
  /\ UNCHANGED << phase, frames, frameSteps, last >>
  /\ UNCHANGED << pairVars, chatVars >>

ConfigChange == \E c \in ConfigChanges(config) : Render(c, globalSettings)

SettingsChange == \E g \in SettingsChanges(globalSettings) : Render(config, g)

BothChange ==
  \E c \in ConfigChanges(config) : \E g \in SettingsChanges(globalSettings) : Render(c, g)

\* the browser runs the callbacks requested for this frame
Frame ==
  /\ pending # << >>
  /\ frames < MaxFrames
  /\ \E size \in ClientSizes :
       \E st \in { RunTicks(pending, 1,
                            [balls |-> balls, rotation |-> rotation,
                             requestRef |-> requestRef, nextId |-> nextId,
                             requested |-> << >>, steps |-> 0, last |-> last],
                            size[1], size[2]) } :
          /\ balls' = st.balls
          /\ rotation' = st.rotation
          /\ requestRef' = st.requestRef
          /\ nextId' = st.nextId
          /\ pending' = st.requested
          /\ frameSteps' = st.steps
          /\ last' = st.last
  /\ frames' = frames + 1
  /\ UNCHANGED << config, globalSettings, phase, builds, renders >>
  /\ UNCHANGED << pairVars, chatVars >>

\* unmounting: React detaches the ref in the commit ...
Detach ==
  /\ phase = "mounted"
  /\ phase' = "detached"
  /\ UNCHANGED << config, globalSettings, balls, rotation, requestRef, pending, nextId,
                  builds, frames, frameSteps, renders, last >>
  /\ UNCHANGED << pairVars, chatVars >>

\* ... and runs the cleanup of the animation effect afterwards
Unmount ==
  /\ phase = "detached"
  /\ phase' = "unmounted"
  /\ pending' = Cleanup(pending, requestRef)
  /\ UNCHANGED << config, globalSettings, balls, rotation, requestRef, nextId,
                  builds, frames, frameSteps, renders, last >>
  /\ UNCHANGED << pairVars, chatVars >>

PairIdle == pairIn = << >> /\ pairOut = << >>

ChatIdle ==
  /\ messages = << >>
  /\ input = << >>
  /\ isLoading = FALSE
  /\ isOpen = FALSE
  /\ apiKey = FALSE
  /\ request = << >>
  /\ sends = 0

\* the first render and its effects
Init ==
  /\ config = BaseConfig
  /\ globalSettings = BaseSettings
  /\ balls \in NewBalls(BaseConfig)
  /\ rotation = 0
  /\ builds = 1
  /\ pending = Request(<< >>, 1, BaseConfig, BaseSettings)
  /\ requestRef = 1
  /\ nextId = 2
  /\ phase = "mounted"
  /\ frames = 0
  /\ frameSteps = 0
  /\ renders = 0
  /\ last = NoStep
  /\ PairIdle
  /\ ChatIdle

Next == ConfigChange \/ SettingsChange \/ BothChange \/ Frame \/ Detach \/ Unmount

Spec == Init /\ [][Next]_vars

(***************************************************************************)
(* updatePhysics alone: the step applied to drawn bodies and extents       *)
(***************************************************************************)
MaxSteps == 2

\* canvas extents of a step: the laid-out canvas, and a canvas of no size
StepSizes == { << 100 * Q, 100 * Q >>, << 0, 0 >> }

\* three bodies in a triangle, in the default polygon with gravity and a lossy
\* wall, and in the default star
StepConfigs ==
  { [c EXCEPT !.ballCount = 3 * Q] :
      c \in { [BaseConfig EXCEPT !.rotationSpeed = 0, !.vertexCount = 3],
               [BaseConfig EXCEPT !.gravity = Q \div 2, !.restitution = (8 * Q) \div 10],
               [BaseConfig EXCEPT !.rotationSpeed = 0, !.shapeType = "star"] } }

\* the first cell boundary right of the centre, for the laid-out canvas
BoundaryOf(cfg) ==
  LET cellSize == cellSizeOf(cfg)
      worldBounds == worldBoundsOf(shapeRadiusOf(100 * Q, 100 * Q))
  IN cellSize * ((worldBounds \div cellSize) + 1) - worldBounds

\* positions on, just below and between cell boundaries
StepPositions(cfg) ==
  LET e == BoundaryOf(cfg)
  IN { Vec(e, e), Vec(e - 1, e), Vec(e, e - 1), Vec(e + 2 * Q, e), Vec(e - 3 * Q, e - 3 * Q) }

\* every body at rest, or the first one fast
StepVelocities == { Zero, Vec(100 * Q, 0) }

StepBalls(cfg) ==
  { AsSeq([i \in 1..CountOf(cfg) |->
             [id |-> << cfg.id, i - 1 >>, pos |-> ps[i],
              vel |-> IF i = 1 THEN v ELSE Zero, radius |-> cfg.ballSize]]) :
    ps \in [1..CountOf(cfg) -> StepPositions(cfg)], v \in StepVelocities }

CanvasIdle ==
  /\ requestRef = 0
  /\ pending = << >>
  /\ nextId = 1
  /\ phase = "mounted"
  /\ builds = 0
  /\ frameSteps = 0
  /\ renders = 0

StepInit ==
  /\ config \in StepConfigs
  /\ globalSettings = BaseSettings
  /\ balls \in StepBalls(config)
  /\ rotation = 0
  /\ frames = 0
  /\ last = NoStep
  /\ CanvasIdle
  /\ PairIdle
  /\ ChatIdle

\* one call of updatePhysics
StepOnce ==
  /\ frames < MaxSteps
  /\ frames' = frames + 1
  /\ \E size \in StepSizes :
       \E res \in { UpdatePhysics(balls, rotation, config, globalSettings, size[1], size[2]) } :
          /\ balls' = res.balls
          /\ rotation' = res.rotation
          /\ last' = StepRecord(last.n + 1, config, globalSettings, res)
  /\ UNCHANGED << config, globalSettings, requestRef, pending, nextId, phase, builds,
                  frameSteps, renders >>
  /\ UNCHANGED << pairVars, chatVars >>

SpecStep == StepInit /\ [][StepOnce]_vars

(***************************************************************************)
(* The pair resolver alone                                                 *)
(***************************************************************************)
\* where ballB is, ballA being at the centre
PairOffsets ==
  { Zero, Vec(3 * Q, 0), Vec(-3 * Q, 0), Vec(0, 3 * Q), Vec(0, -Q), Vec(2 * Q, 2 * Q),
    Vec((18 * Q) \div 10, (24 * Q) \div 10), Vec(5 * Q, 0) }

PairVelocities ==
  { Zero, Vec(2 * Q, 0), Vec(-2 * Q, 0), Vec(0, Q), Vec(Q, -2 * Q) }

PairInputs ==
  { [a |-> [id |-> << 1, 0 >>, pos |-> Zero, vel |-> va, radius |-> r],
     b |-> [id |-> << 1, 1 >>, pos |-> d, vel |-> vb, radius |-> r]] :
    d \in PairOffsets, va \in PairVelocities, vb \in PairVelocities, r \in { 2 * Q, 3 * Q } }

PairInit ==
  /\ pairIn \in PairInputs
  /\ pairOut = << >>
  /\ config = BaseConfig
  /\ globalSettings = BaseSettings
  /\ balls = << >>
  /\ rotation = 0
  /\ frames = 0
  /\ last = NoStep
  /\ CanvasIdle
  /\ ChatIdle

Resolve ==
  /\ pairOut = << >>
  /\ pairOut' = ResolvePair(pairIn.a, pairIn.b)
  /\ UNCHANGED << pairIn, canvasVars, chatVars >>

SpecPair == PairInit /\ [][Resolve]_vars

(***************************************************************************)
(* ChatPanel.  A string is a sequence of characters.  A message is         *)
(* [sender, text].  Every state update of one event handler is one step:   *)
(* React commits the updates of a discrete event before the next event.    *)
(***************************************************************************)
\* how many sends the model follows
MaxSends == 2

\* the longest input typed
MaxInput == 2

Chars == { " ", "a" }

Inputs == UNION { [1..n -> Chars] : n \in 0..MaxInput }

RECURSIVE TrimStart(_)
TrimStart(str) ==
  IF str # << >> /\ Head(str) = " " THEN TrimStart(Tail(str)) ELSE str

RECURSIVE TrimEnd(_)
TrimEnd(str) ==
  IF str # << >> /\ str[Len(str)] = " " THEN TrimEnd(SubSeq(str, 1, Len(str) - 1)) ELSE str

\* String.prototype.trim
Trim(str) == TrimEnd(TrimStart(str))

\* the greeting the messages state starts with (lines 21-23)
Greeting == [sender |-> "ai", text |-> "Hello!"]

\* the message of the catch block (line 66)
ErrorMessage == [sender |-> "ai", text |-> "An error occurred."]

\* response.text, or the text that stands in for an undefined one (line 54)
ReplyTexts == { "reply", "Sorry, I could not process that." }

\* a handler that starts a request whenever the trimmed input is not empty
AcceptsWhileLoading(inp, loading) == Trim(inp) # << >>

\* the negation of the early return of handleSend (line 35)
Accepts(inp, loading) == ~(Trim(inp) = << >> \/ loading)

\* the first render of the panel
ChatInit ==
  /\ messages = << Greeting >>
  /\ input = << >>
  /\ isLoading = FALSE
  /\ isOpen = FALSE
  /\ apiKey \in BOOLEAN
  /\ request = << >>
  /\ sends = 0
  /\ config = BaseConfig
  /\ globalSettings = BaseSettings
  /\ balls = << >>
  /\ rotation = 0
  /\ frames = 0
  /\ last = NoStep
  /\ CanvasIdle
  /\ PairIdle

\* the launcher button and the close button
Open ==
  /\ ~isOpen
  /\ isOpen' = TRUE
  /\ UNCHANGED << messages, input, isLoading, apiKey, request, sends, canvasVars, pairVars >>

Close ==
  /\ isOpen
  /\ isOpen' = FALSE
  /\ UNCHANGED << messages, input, isLoading, apiKey, request, sends, canvasVars, pairVars >>

\* onChange of the input field (line 142)
Type ==
  /\ isOpen
  /\ \E str \in Inputs \ { input } : input' = str
  /\ UNCHANGED << messages, isLoading, isOpen, apiKey, request, sends, canvasVars, pairVars >>

\* handleSend up to its first await (lines 34-47): Enter in the field, or
\* the form submitted.  Without API_KEY the throw, the catch block and the
\* finally block run in the same event.
Send ==
  /\ isOpen
  /\ IF ~Accepts(input, isLoading)
     THEN UNCHANGED << messages, input, isLoading, request, sends >>
     ELSE /\ sends < MaxSends
          /\ sends' = sends + 1
          /\ input' = << >>
          /\ IF apiKey
             THEN /\ messages' = Append(messages, [sender |-> "user", text |-> Trim(input)])
                  /\ isLoading' = TRUE
                  /\ request' = Append(request, Trim(input))
             ELSE /\ messages' = Append(Append(messages, [sender |-> "user", text |-> Trim(input)]),
                                        ErrorMessage)
                  /\ isLoading' = FALSE
                  /\ UNCHANGED request
  /\ UNCHANGED << isOpen, apiKey, canvasVars, pairVars >>

\* generateContent resolves: the rest of the try block, then finally
\* (lines 54-70)
Reply ==
  /\ request # << >>
  /\ \E text \in ReplyTexts :
       messages' = Append(messages, [sender |-> "ai", text |-> text])
  /\ isLoading' = FALSE
  /\ request' = Tail(request)
  /\ UNCHANGED << input, isOpen, apiKey, sends, canvasVars, pairVars >>

\* generateContent rejects: the catch block, then finally (lines 64-70)
Fail ==
  /\ request # << >>
  /\ messages' = Append(messages, ErrorMessage)
  /\ isLoading' = FALSE
  /\ request' = Tail(request)
  /\ UNCHANGED << input, isOpen, apiKey, sends, canvasVars, pairVars >>

ChatNext == Open \/ Close \/ Type \/ Send \/ Reply \/ Fail

\* a call of generateContent in flight is settled in the end, one way or the other
SpecChat == ChatInit /\ [][ChatNext]_vars /\ WF_vars(Reply \/ Fail)

(***************************************************************************)
(* Properties of one updatePhysics call, read off `last`                   *)
(***************************************************************************)
\* the indices of the bodies of the latest step
Bodies == 1..Len(last.moved)

\* the entries of the log that examined the unordered pair {i, j}
ExaminedAt(i, j) == { n \in 1..Len(last.log) : { last.log[n].a, last.log[n].b } = { i, j } }

\* the times the nested loops reached the unordered pair {i, j}
ReachedAt(i, j) == { n \in 1..Len(last.cands) : { last.cands[n][1], last.cands[n][2] } = { i, j } }

\* C1: within one call of updatePhysics no unordered pair of distinct bodies
\* is examined, and so corrected, more than once, however often the
\* neighbourhood scans reach it
C1_NoDoubleResolution ==
  \A i \in Bodies : \A j \in Bodies :
    i # j => Cardinality(ExaminedAt(i, j)) <= 1

\* a pair the scans reached from both bodies' cells and that was corrected once
C1_Witness ==
  \E i \in Bodies : \E j \in Bodies :
    /\ i < j
    /\ Cardinality(ReachedAt(i, j)) >= 2
    /\ \E n \in ExaminedAt(i, j) : last.log[n].hit

\* the buckets of the grid that hold body i
BucketsOf(i) ==
  { k \in 1..Len(last.grid) :
      \E m \in 1..Len(last.grid[k].balls) : last.grid[k].balls[m] = i }

\* how often body i occurs in the grid
OccurrencesOf(i) ==
  Cardinality({ km \in (1..Len(last.grid)) \X Bodies :
                  /\ km[2] <= Len(last.grid[km[1]].balls)
                  /\ last.grid[km[1]].balls[km[2]] = i })

\* the cell of body i
CellOf(i) == last.grid[CHOOSE k \in BucketsOf(i) : TRUE].key

\* the circles of bodies i and j overlap when the grid is built
OverlapAtBuild(i, j) ==
  LET d == sub(last.moved[j].pos, last.moved[i].pos)
      t == last.moved[i].radius + last.moved[j].radius
  IN d.x * d.x + d.y * d.y < t * t

\* C2: when the grid is built every body is in exactly one bucket, and two
\* bodies whose circles overlap, the cell being at least as large as their
\* radii together, lie in cells at most one apart in each axis and are
\* examined by the narrow phase of that step
C2_GridComplete ==
  Len(last.moved) > 1 =>
    /\ \A i \in Bodies : Cardinality(BucketsOf(i)) = 1 /\ OccurrencesOf(i) = 1
    /\ \A i \in Bodies : \A j \in Bodies :
         ( /\ i # j
           /\ OverlapAtBuild(i, j)
           /\ last.cellSize >= last.moved[i].radius + last.moved[j].radius )
         => /\ Abs(CellOf(i)[1] - CellOf(j)[1]) <= 1
            /\ Abs(CellOf(i)[2] - CellOf(j)[2]) <= 1
            /\ ExaminedAt(i, j) # {}

\* two overlapping bodies in cells that differ in both axes, one of them on
\* a cell boundary, examined by the narrow phase
C2_Witness ==
  /\ Len(last.moved) > 1
  /\ \E i \in Bodies : \E j \in Bodies :
       /\ i # j
       /\ OverlapAtBuild(i, j)
       /\ last.cellSize >= last.moved[i].radius + last.moved[j].radius
       /\ CellOf(i)[1] = CellOf(j)[1] + 1
       /\ CellOf(i)[2] = CellOf(j)[2] - 1
       /\ (last.moved[i].pos.x + worldBoundsOf(last.shapeRadius)) % last.cellSize = 0
       /\ ExaminedAt(i, j) # {}

\* shapeRadius + 50 of the latest step
EscapeBound == RDiv(Min(last.width, last.height) * ShapeNum, ShapeDen) + EscapeMargin * Q

\* C4: at the end of a step every body is within shapeRadius + 50 of the
\* centre; the final check sends a body beyond that bound to the centre at
\* rest and leaves every other body as it found it
C4_EscapeCheck ==
  last.n > 0 =>
    \A i \in Bodies :
      /\ mag(last.balls[i].pos) <= EscapeBound
      /\ IF mag(last.preFinal[i].pos) > EscapeBound
         THEN last.balls[i].pos = Zero /\ last.balls[i].vel = Zero
         ELSE last.balls[i] = last.preFinal[i]

\* a step whose final check found one body beyond the bound and one within
C4_Witness ==
  /\ last.n > 1
  /\ \E i \in Bodies : mag(last.preFinal[i].pos) > EscapeBound /\ last.preFinal[i].vel # Zero
  /\ \E i \in Bodies : mag(last.preFinal[i].pos) <= EscapeBound /\ last.preFinal[i].pos # Zero

\* the tolerance of the containment bound: one unit of the program
ContainTolerance == Q

\* C5: for a convex polygon on a canvas of positive extents and
\* restitution * bouncinessMultiplier in (0, 1], at the end of every step
\* every body is within shapeRadius + radius (+ tolerance) of the centre
C5_Containment ==
  ( /\ last.n > 0
    /\ last.width > 0
    /\ last.height > 0
    /\ last.cfg.shapeType = "polygon"
    /\ MulF(last.cfg.restitution, last.gs.bouncinessMultiplier) > 0
    /\ MulF(last.cfg.restitution, last.gs.bouncinessMultiplier) <= Q )
  => \A i \in Bodies :
       mag(last.balls[i].pos) <= last.shapeRadius + last.balls[i].radius + ContainTolerance

(***************************************************************************)
(* Properties of one pair resolution, read off pairIn and pairOut          *)
(***************************************************************************)
\* ballB.pos - ballA.pos and ballB.vel - ballA.vel of the pair given
PairDelta == sub(pairIn.b.pos, pairIn.a.pos)

PairRelVel == sub(pairIn.b.vel, pairIn.a.vel)

\* the circles overlap and the centres are apart
PairOverlaps ==
  /\ PairDelta # Zero
  /\ PairDelta.x * PairDelta.x + PairDelta.y * PairDelta.y
       < (pairIn.a.radius + pairIn.b.radius) * (pairIn.a.radius + pairIn.b.radius)

\* the bodies move towards each other along the line of their centres
PairApproaches == PairRelVel.x * PairDelta.x + PairRelVel.y * PairDelta.y < 0

\* twice the kinetic energy of two bodies of unit mass
Energy(va, vb) == va.x * va.x + va.y * va.y + vb.x * vb.x + vb.y * vb.y

\* the energies agree to the two decimal digits a number is held with
EnergyClose(e1, e2) == Abs(e1 - e2) * 50 <= e1 + Q * Q

\* the lengths agree to the two decimal digits a number is held with
LengthClose(l1, l2) == Abs(l1 - l2) * 50 <= l2

\* C6: for an overlapping pair of equal radius at distinct positions that
\* is approaching, one resolution swaps the normal velocity components and
\* keeps the tangential ones: velocities {v,0} and {-v,0} head-on are
\* exchanged exactly, the sum of the velocities is unchanged, the sum of the
\* squared speeds is unchanged, nothing scales the result; a pair that
\* overlaps and is not approaching keeps its velocities and is only moved
\* apart, to where the circles touch
C6_ElasticExchange ==
  (pairOut # << >> /\ PairOverlaps) =>
    /\ pairOut.hit
    /\ PairApproaches =>
         /\ pairOut.swapped
         /\ add(pairOut.a.vel, pairOut.b.vel) = add(pairIn.a.vel, pairIn.b.vel)
         /\ EnergyClose(Energy(pairIn.a.vel, pairIn.b.vel), Energy(pairOut.a.vel, pairOut.b.vel))
         /\ PairDelta.y = 0 =>
              /\ pairOut.a.vel = Vec(pairIn.b.vel.x, pairIn.a.vel.y)
              /\ pairOut.b.vel = Vec(pairIn.a.vel.x, pairIn.b.vel.y)
         /\ PairDelta.x = 0 =>
              /\ pairOut.a.vel = Vec(pairIn.a.vel.x, pairIn.b.vel.y)
              /\ pairOut.b.vel = Vec(pairIn.b.vel.x, pairIn.a.vel.y)
         /\ (pairIn.a.vel.y = 0 /\ pairIn.b.vel = mult(pairIn.a.vel, -Q) /\ PairDelta.y = 0) =>
              /\ pairOut.a.vel = pairIn.b.vel
              /\ pairOut.b.vel = pairIn.a.vel
    /\ ~PairApproaches =>
         /\ ~pairOut.swapped
         /\ pairOut.a.vel = pairIn.a.vel
         /\ pairOut.b.vel = pairIn.b.vel
         /\ pairOut.a.pos # pairIn.a.pos
         /\ pairOut.b.pos # pairIn.b.pos
         /\ LengthClose(mag(sub(pairOut.b.pos, pairOut.a.pos)),
                        pairIn.a.radius + pairIn.b.radius)

\* a head-on pair {v,0}, {-v,0} whose velocities were exchanged
C6_Witness ==
  /\ pairOut # << >>
  /\ PairOverlaps
  /\ PairApproaches
  /\ PairDelta.y = 0
  /\ pairIn.a.vel.x > 0
  /\ pairIn.a.vel.y = 0
  /\ pairIn.b.vel = mult(pairIn.a.vel, -Q)
  /\ pairOut.a.vel = pairIn.b.vel
  /\ pairOut.b.vel = pairIn.a.vel

\* radiusA + radiusB - 0, the overlap of two bodies at one position
CoincidentOverlap == pairIn.a.radius + pairIn.b.radius

\* C7: for two bodies at exactly the same position the fallback normal
\* {1,0} serves every step of the resolution: each body is pushed overlap/2
\* along -x and +x, and the approach test and the swap of the normal
\* components use {1,0}, so bodies approaching along x exchange their x
\* velocities
C7_CoincidentNormal ==
  (pairOut # << >> /\ PairDelta = Zero) =>
    /\ pairOut.hit
    /\ pairOut.a.pos = add(pairIn.a.pos, Vec(-RDiv(CoincidentOverlap, 2), 0))
    /\ pairOut.b.pos = add(pairIn.b.pos, Vec(RDiv(CoincidentOverlap, 2), 0))
    /\ IF PairRelVel.x < 0
       THEN /\ pairOut.a.vel = Vec(pairIn.b.vel.x, pairIn.a.vel.y)
            /\ pairOut.b.vel = Vec(pairIn.a.vel.x, pairIn.b.vel.y)
       ELSE /\ pairOut.a.vel = pairIn.a.vel
            /\ pairOut.b.vel = pairIn.b.vel

(***************************************************************************)
(* Properties of the component's effects and frame loop                    *)
(***************************************************************************)
\* C3: every step the frame loop executes is computed from the config and
\* the globalSettings of the latest render
C3_CurrentInputs ==
  last.n > 0 => (last.cfg = last.prop /\ last.gs = last.propGs)

\* one of id, ballCount, initialSpeed, ballSize differs between the
\* configurations
SeedChanged(old, new) ==
  \/ new.id # old.id
  \/ new.ballCount # old.ballCount
  \/ new.initialSpeed # old.initialSpeed
  \/ new.ballSize # old.ballSize

\* the list floor(ballCount) bodies long, ids '<config.id>-<i>', radius ballSize
FreshList(list, cfg) ==
  /\ Len(list) * Q <= cfg.ballCount
  /\ cfg.ballCount < (Len(list) + 1) * Q
  /\ \A i \in 1..Len(list) : list[i].id = << cfg.id, i - 1 >> /\ list[i].radius = cfg.ballSize
  /\ \A i \in 1..Len(list) : \A j \in 1..Len(list) : list[i].id = list[j].id => i = j

\* C8: the body list is rebuilt, and the rotation reset to 0, exactly when
\* config.id, ballCount, initialSpeed or ballSize changes; the rebuilt list
\* holds floor(ballCount) bodies of distinct ids and radius ballSize; a
\* change of another field or of globalSettings leaves list and rotation as
\* they were
C8_Reseed ==
  [][ /\ builds' # builds <=> SeedChanged(config, config')
      /\ SeedChanged(config, config') =>
           /\ builds' = builds + 1
           /\ rotation' = 0
           /\ FreshList(balls', config')
      /\ ( /\ config' # config \/ globalSettings' # globalSettings
           /\ ~SeedChanged(config, config') ) =>
           /\ balls' = balls
           /\ rotation' = rotation ]_vars

\* after steps, a rebuild for a ballCount of 1.5, and a render that changed
\* gravity alone
C8_Witness ==
  /\ builds = 2
  /\ renders = 2
  /\ last.n > 0
  /\ config.ballCount = Q + Q \div 2
  /\ Len(balls) = 1
  /\ config.gravity # BaseConfig.gravity

\* C9: at most one frame callback of the component is pending at any time,
\* a frame runs the step once while the canvas is attached and not at all
\* afterwards, and once the component is unmounted nothing is pending and no
\* step is executed
C9_OneStepPerFrame ==
  /\ [](Len(pending) <= 1 /\ frameSteps <= 1)
  /\ [](phase = "unmounted" => pending = << >>)
  /\ [][ /\ frames' # frames =>
              /\ frameSteps' = IF phase = "mounted" THEN 1 ELSE 0
              /\ last'.n = last.n + frameSteps'
         /\ phase # "mounted" => last' = last /\ balls' = balls /\ rotation' = rotation ]_vars

\* the settings changed, a later frame ran one step with them, and the
\* component was unmounted
C9_Witness ==
  /\ phase = "unmounted"
  /\ globalSettings # BaseSettings
  /\ last.n > 0
  /\ last.gs = globalSettings
  /\ frameSteps = 1
  /\ pending = << >>

(***************************************************************************)
(* Properties of ChatPanel                                                 *)
(***************************************************************************)
\* how many messages of the sender the list holds
CountOfSender(who) == Cardinality({ k \in 1..Len(messages) : messages[k].sender = who })

\* what holds of the panel in every state
ChatSafe ==
  /\ Len(request) <= 1
  /\ isLoading <=> request # << >>
  /\ CountOfSender("user") = sends
  /\ CountOfSender("ai") = 1 + sends - Len(request)
  /\ messages[1] = Greeting
  /\ \A k \in 1..(Len(messages) - 1) : messages[k].sender # messages[k + 1].sender
  /\ \A k \in 1..Len(messages) :
       IF messages[k].sender = "user"
       THEN messages[k].text # << >> /\ messages[k].text = Trim(messages[k].text)
       ELSE messages[k] = Greeting \/ messages[k] = ErrorMessage
              \/ messages[k].text \in ReplyTexts

\* C10: a send is accepted only when the trimmed input is not empty and
\* isLoading is false; an accepted send appends one user message and is
\* followed in the end by one AI message, with isLoading false again; at most
\* one request is in flight, and user and AI messages alternate
C10_Chat ==
  /\ []ChatSafe
  /\ [][sends' # sends =>
          /\ Trim(input) # << >>
          /\ ~isLoading
          /\ sends' = sends + 1
          /\ Len(messages') > Len(messages)
          /\ messages'[Len(messages) + 1] = [sender |-> "user", text |-> Trim(input)]]_vars
  /\ [][(isLoading /\ ~isLoading') =>
          /\ messages' = Append(messages, messages'[Len(messages')])
          /\ messages'[Len(messages')].sender = "ai"]_vars
  /\ \A n \in 1..MaxSends :
       (sends = n) ~> (~isLoading /\ CountOfSender("ai") > n)

\* two sends answered, one by the model and one by the error text
C10_Witness ==
  /\ sends = 2
  /\ ~isLoading
  /\ Len(messages) = 5
  /\ messages[3] = ErrorMessage
  /\ messages[5].text = "reply"

====
